---- MODULE Spec2Model ----
(***************************************************************************)
(* A model of scripts/create_and_test_large_index.py: the incremental      *)
(* ground-truth tracker (GroundTruthTracker), the recall computation       *)
(* (calculate_recall) and the recall bookkeeping of test_search_with_stats.*)
(*                                                                         *)
(* Numbers.  Vectors have small integer components.  A distance is kept as *)
(* an exact rational r = <<p, q>> (q > 0, lowest terms):                   *)
(*   l2      dist = sqrt(r),             r = sum of squared differences;   *)
(*   cosine  dist = 1 + sgn(r)*sqrt|r|,  r = -sgn(dot)*dot^2/(|q|^2|v|^2). *)
(* Both maps r -> dist are strictly increasing, so dist < dist' iff        *)
(* r < r', dist = dist' iff r = r', and -dist is represented by -r.        *)
(* Document ids are Python strings, modelled as sequences of decimal       *)
(* digits and compared as Python compares strings (lexicographically).     *)
(***************************************************************************)
EXTENDS Integers, Sequences, FiniteSets, TLC

VARIABLES
    constructed,     \* a GroundTruthTracker instance exists
    query_vectors,   \* self.query_vectors
    k,               \* self.k
    space_type,      \* self.space_type
    heaps,           \* self.heaps: one binary heap (a list) per query
    stream,          \* history: the update calls made so far, in order
    ret,             \* the last call on the tracker and how it ended
    approximate_results, \* calculate_recall's first argument
    ground_truth,    \* calculate_recall's second argument
    recall,          \* calculate_recall's return value, once called
    search,          \* test_search_with_stats: its locals and position
    indexing         \* index_vectors: its locals, position and requests sent

tvars == <<constructed, query_vectors, k, space_type, heaps, stream, ret>>
rvars == <<approximate_results, ground_truth, recall>>
ovars == <<approximate_results, ground_truth, recall, search, indexing>>
vars == <<constructed, query_vectors, k, space_type, heaps, stream, ret,
          approximate_results, ground_truth, recall, search, indexing>>

----------------------------------------------------------------------------
(* Bounds and input sets *)

MaxK == 2
MaxN == 3

\* query indices handed to get_ground_truth: in range (0, 1), negative and
\* within -Q..-1, below -Q, too large
QueryIndices == {-3, -1, 0, 1, 2}

\* the strings "9", "10", "2": as numbers 2 < 9 < 10, as strings "10" < "2" < "9"
Ids == {<<9>>, <<1, 0>>, <<2>>}

\* vectors of the query dimension
Vecs == {<<0, 0>>, <<1, 0>>, <<0, 1>>}

\* under l2 the first query sees three different distances and the second a
\* tie; under cosine the first sees a tie and the second (zero norm) only 1.0
QuerySets == {<<<<1, 0>>, <<0, 0>>>>}

SupportedMetrics == {"l2", "cosine"}

\* inputs outside the contract: a metric name update does not know, no
\* queries at all, vectors whose length is not the query dimension
AllMetrics == SupportedMetrics \cup {"innerproduct"}

QuerySetsC == QuerySets \cup {<<>>, <<<<0, 0>>>>}

OtherVecs == {<<1>>, <<0>>, <<1, 0, 0>>}

MaxNC == 2

\* identifier lists handed to calculate_recall, and their longest length
MaxLen == 2

IdSeqs == UNION {[1..n -> Ids] : n \in 0..MaxLen}

\* test_search_with_stats: the most searches asked for
MaxSearches == 2

\* index_vectors: the largest num_vectors (ids "0".."10") and batch_size
MaxVectors == 11

MaxBatch == 3

\* the random vectors index_vectors draws
IndexVecs == {<<1, 0>>, <<0, 1>>}

----------------------------------------------------------------------------
(* Arithmetic *)

Abs(x) == IF x < 0 THEN -x ELSE x

Min(a, b) == IF a < b THEN a ELSE b

RECURSIVE GCD(_, _)
GCD(a, b) == IF b = 0 THEN a ELSE GCD(b, a % b)

\* the rational p/q (q > 0) in lowest terms
Rat(p, q) == LET g == GCD(Abs(p), q) IN <<p \div g, q \div g>>

RatLess(a, b) == a[1] * b[2] < b[1] * a[2]

Neg(a) == <<-a[1], a[2]>>

RECURSIVE SumSq(_)
SumSq(v) == IF v = <<>> THEN 0 ELSE v[1] * v[1] + SumSq(Tail(v))

RECURSIVE Dot(_, _)
Dot(a, b) == IF a = <<>> THEN 0 ELSE a[1] * b[1] + Dot(Tail(a), Tail(b))

\* Python's str < str on digit strings
RECURSIVE StrLess(_, _)
StrLess(a, b) ==
    IF b = <<>> THEN FALSE
    ELSE IF a = <<>> THEN TRUE
    ELSE IF a[1] # b[1] THEN a[1] < b[1]
    ELSE StrLess(Tail(a), Tail(b))

\* Python's tuple < tuple on (-dist, doc_id)
TupleLess(x, y) ==
    \/ RatLess(x[1], y[1])
    \/ x[1] = y[1] /\ StrLess(x[2], y[2])

----------------------------------------------------------------------------
(* Distances: update, lines 260-273 *)

\* numpy broadcasting of two 1-d arrays
Broadcastable(q, v) == Len(q) = Len(v) \/ Len(q) = 1 \/ Len(v) = 1

\* query_vector - vector_np
Subtract(q, v) ==
    IF Len(q) = Len(v) THEN [i \in 1..Len(q) |-> q[i] - v[i]]
    ELSE IF Len(v) = 1 THEN [i \in 1..Len(q) |-> q[i] - v[1]]
    ELSE [i \in 1..Len(v) |-> q[1] - v[i]]

L2Distance(q, v) ==
    IF Broadcastable(q, v)
    THEN [err |-> "none", dist |-> Rat(SumSq(Subtract(q, v)), 1)]
    ELSE [err |-> "ValueError", dist |-> <<0, 1>>]

CosineDistance(q, v) ==
    LET qn == SumSq(q)
        vn == SumSq(v)
    IN  IF qn > 0 /\ vn > 0
        THEN IF Len(q) = Len(v)
             THEN LET d == Dot(q, v)
                      s == IF d < 0 THEN 1 ELSE -1
                  IN  [err |-> "none", dist |-> Rat(s * d * d, qn * vn)]
             ELSE [err |-> "ValueError", dist |-> <<0, 1>>]
        ELSE [err |-> "none", dist |-> <<0, 1>>]

Distance(q, v, st) ==
    IF st = "l2" THEN L2Distance(q, v)
    ELSE IF st = "cosine" THEN CosineDistance(q, v)
    ELSE [err |-> "ValueError", dist |-> <<0, 1>>]

----------------------------------------------------------------------------
(* heapq, as called at lines 279 and 282; positions are 0-based as in heapq *)

RECURSIVE SiftdownLoop(_, _, _, _)
SiftdownLoop(heap, startpos, pos, newitem) ==
    IF pos > startpos
    THEN LET parentpos == (pos - 1) \div 2
             parent == heap[parentpos + 1]
         IN  IF TupleLess(newitem, parent)
             THEN SiftdownLoop([heap EXCEPT ![pos + 1] = parent],
                               startpos, parentpos, newitem)
             ELSE [heap EXCEPT ![pos + 1] = newitem]
    ELSE [heap EXCEPT ![pos + 1] = newitem]

Siftdown(heap, startpos, pos) ==
    SiftdownLoop(heap, startpos, pos, heap[pos + 1])

heappush(heap, item) == Siftdown(Append(heap, item), 0, Len(heap))

RECURSIVE SiftupLoop(_, _, _, _)
SiftupLoop(heap, startpos, pos, newitem) ==
    LET endpos == Len(heap)
        childpos == 2 * pos + 1
    IN  IF childpos < endpos
        THEN LET rightpos == childpos + 1
                 c == IF /\ rightpos < endpos
                         /\ ~TupleLess(heap[childpos + 1], heap[rightpos + 1])
                      THEN rightpos
                      ELSE childpos
             IN  SiftupLoop([heap EXCEPT ![pos + 1] = heap[c + 1]],
                            startpos, c, newitem)
        ELSE Siftdown([heap EXCEPT ![pos + 1] = newitem], startpos, pos)

heapreplace(heap, item) ==
    SiftupLoop([heap EXCEPT ![1] = item], 0, 0, item)

----------------------------------------------------------------------------
(* GroundTruthTracker *)

\* UpdateHeap with the comparison of line 281 made against heap[0][0] itself,
\* the negation forgotten: a full heap never takes a closer candidate
UpdateHeapNoNegation(heap, dist, doc_id, kk) ==
    IF Len(heap) < kk
    THEN heappush(heap, <<Neg(dist), doc_id>>)
    ELSE IF RatLess(dist, heap[1][1])
         THEN heapreplace(heap, <<Neg(dist), doc_id>>)
         ELSE heap

\* UpdateHeap with the capacity test of line 278 off by one (<=)
UpdateHeapOffByOne(heap, dist, doc_id, kk) ==
    IF Len(heap) <= kk
    THEN heappush(heap, <<Neg(dist), doc_id>>)
    ELSE IF RatLess(dist, Neg(heap[1][1]))
         THEN heapreplace(heap, <<Neg(dist), doc_id>>)
         ELSE heap

\* UpdateHeap with the comparison of line 281 turned around (>): a full heap
\* trades its worst entry for a farther candidate
UpdateHeapFarther(heap, dist, doc_id, kk) ==
    IF Len(heap) < kk
    THEN heappush(heap, <<Neg(dist), doc_id>>)
    ELSE IF RatLess(Neg(heap[1][1]), dist)
         THEN heapreplace(heap, <<Neg(dist), doc_id>>)
         ELSE heap

\* lines 275-282: one query's heap takes one candidate
UpdateHeap(heap, dist, doc_id, kk) ==
    IF Len(heap) < kk
    THEN heappush(heap, <<Neg(dist), doc_id>>)
    ELSE IF RatLess(dist, Neg(heap[1][1]))
         THEN heapreplace(heap, <<Neg(dist), doc_id>>)
         ELSE heap

\* lines 260-282: the loop over the queries, from query i on; an exception
\* leaves the heaps of the queries before i updated
RECURSIVE UpdateLoop(_, _, _, _, _, _, _)
UpdateLoop(hs, i, qv, kk, st, doc_id, vector) ==
    IF i > Len(qv)
    THEN [heaps |-> hs, outcome |-> "ok", reached |-> Len(qv)]
    ELSE LET r == Distance(qv[i], vector, st)
         IN  IF r.err # "none"
             THEN [heaps |-> hs, outcome |-> r.err, reached |-> i - 1]
             ELSE UpdateLoop(
                      [hs EXCEPT ![i] = UpdateHeap(hs[i], r.dist, doc_id, kk)],
                      i + 1, qv, kk, st, doc_id, vector)

\* the sort key of line 295 without its minus sign: farthest first
SortKeyNoMinus(x) == x[1]

\* sorted(heap, key=lambda x: -x[0]): a stable sort, ascending in the key
SortKey(x) == Neg(x[1])

InsertStable(sorted, x) ==
    LET n == Cardinality({j \in 1..Len(sorted) :
                             ~RatLess(SortKey(x), SortKey(sorted[j]))})
    IN  SubSeq(sorted, 1, n) \o <<x>> \o SubSeq(sorted, n + 1, Len(sorted))

RECURSIVE SortedResults(_)
SortedResults(heap) ==
    IF heap = <<>> THEN <<>>
    ELSE InsertStable(SortedResults(SubSeq(heap, 1, Len(heap) - 1)),
                      heap[Len(heap)])

\* Python list indexing heaps[query_index]: 0 when it raises IndexError,
\* else the 1-based position
ListIndex(n, query_index) ==
    IF 0 <= query_index /\ query_index < n THEN query_index + 1
    ELSE IF -n <= query_index /\ query_index < 0 THEN n + query_index + 1
    ELSE 0

IdleSearch == [pc |-> "idle", measure_recall |-> FALSE, num_searches |-> 0,
               i |-> 0, recall_values |-> <<>>, outcome |-> "none",
               summary |-> [printed |-> FALSE, mean |-> <<0, 1>>,
                            min |-> <<0, 1>>, max |-> <<0, 1>>,
                            std_squared |-> <<0, 1>>]]

IdleIndexing == [pc |-> "idle", num_vectors |-> 0, batch_size |-> 1,
                 batch |-> 0, i |-> 0, bulk_data |-> <<>>, posted |-> <<>>]

NoRet == [op |-> "none", query_index |-> 0, outcome |-> "ok",
          value |-> <<>>, sorted_results |-> <<>>]

\* __init__, lines 241-249
Construct(qv, kk, st) ==
    /\ ~constructed
    /\ constructed' = TRUE
    /\ query_vectors' = qv
    /\ k' = kk
    /\ space_type' = st
    /\ heaps' = [i \in 1..Len(qv) |-> <<>>]
    /\ ret' = [NoRet EXCEPT !.op = "init"]
    /\ UNCHANGED stream

\* update, lines 251-282
Update(doc_id, vector) ==
    /\ constructed
    /\ LET res == UpdateLoop(heaps, 1, query_vectors, k, space_type,
                             doc_id, vector)
       IN  /\ heaps' = res.heaps
           /\ stream' = Append(stream, [doc_id |-> doc_id, vector |-> vector,
                                        outcome |-> res.outcome,
                                        reached |-> res.reached])
           /\ ret' = [NoRet EXCEPT !.op = "update", !.outcome = res.outcome]
    /\ UNCHANGED <<constructed, query_vectors, k, space_type>>

\* line 295 written as heap.sort(key=...): the heap's own list is reordered
HeapSortedInPlace(heap) == SortedResults(heap)

\* line 295: sorted() builds a new list; the heap's own list stays as it is
HeapAfterSorted(heap) == heap

\* get_ground_truth, lines 284-296
GetGroundTruth(query_index) ==
    /\ constructed
    /\ LET p == ListIndex(Len(heaps), query_index)
       IN  IF p = 0
           THEN /\ ret' = [NoRet EXCEPT !.op = "get_ground_truth",
                                        !.query_index = query_index,
                                        !.outcome = "IndexError"]
                /\ UNCHANGED heaps
           ELSE LET sorted_results == SortedResults(heaps[p])
                IN  /\ ret' = [op |-> "get_ground_truth",
                               query_index |-> query_index,
                               outcome |-> "ok",
                               value |-> [j \in 1..Len(sorted_results) |->
                                             sorted_results[j][2]],
                               sorted_results |-> sorted_results]
                    /\ heaps' = [heaps EXCEPT
                                    ![p] = HeapAfterSorted(heaps[p])]
    /\ UNCHANGED <<constructed, query_vectors, k, space_type, stream>>

----------------------------------------------------------------------------
(* calculate_recall, lines 302-321.  A recall value is the exact rational   *)
(* <<p, q>> of the float division.                                          *)

SetOf(seq) == {seq[j] : j \in 1..Len(seq)}

CalculateRecall(approx, truth) ==
    IF truth = <<>> THEN <<0, 1>>
    ELSE LET approximate_set == SetOf(approx)
             ground_truth_set == SetOf(truth)
             intersection == approximate_set \cap ground_truth_set
         IN  Rat(Cardinality(intersection), Len(truth))

DoCalculateRecall ==
    /\ ~recall.called
    /\ recall' = [called |-> TRUE,
                  value |-> CalculateRecall(approximate_results, ground_truth)]
    /\ UNCHANGED <<approximate_results, ground_truth>>

----------------------------------------------------------------------------
(* test_search_with_stats, lines 365-497: the recall bookkeeping *)

RatAdd(a, b) == Rat(a[1] * b[2] + b[1] * a[2], a[2] * b[2])

RatSub(a, b) == RatAdd(a, Neg(b))

RatMul(a, b) == Rat(a[1] * b[1], a[2] * b[2])

RECURSIVE RatSum(_)
RatSum(s) == IF s = <<>> THEN <<0, 1>> ELSE RatAdd(s[1], RatSum(Tail(s)))

\* np.mean
Mean(s) == LET t == RatSum(s) IN Rat(t[1], t[2] * Len(s))

\* np.min, np.max
MinOf(s) == CHOOSE x \in SetOf(s) : \A y \in SetOf(s) : ~RatLess(y, x)

MaxOf(s) == CHOOSE x \in SetOf(s) : \A y \in SetOf(s) : ~RatLess(x, y)

\* np.std is the square root of this
Variance(s) ==
    LET m == Mean(s)
    IN  Mean([j \in 1..Len(s) |-> RatMul(RatSub(s[j], m), RatSub(s[j], m))])

\* the guard of line 490 without its test of recall_values
SummaryDueNoEmptyTest(measure_recall, recall_values) == measure_recall

\* line 490: if measure_recall and recall_values
SummaryDue(measure_recall, recall_values) ==
    measure_recall /\ recall_values # <<>>

\* lines 398-414: one search iteration.  test_search answers (success,
\* result_ids); a failed search answers (False, []).
SearchIteration(success, result_ids) ==
    /\ search.pc = "loop"
    /\ search.i < search.num_searches
    /\ IF search.measure_recall /\ search.i >= Len(query_vectors)
       THEN \* get_query_vector(i), line 404
            search' = [search EXCEPT !.pc = "done", !.outcome = "IndexError"]
       ELSE IF search.measure_recall /\ success
       THEN LET sr == SortedResults(heaps[ListIndex(Len(heaps), search.i)])
                truth == [j \in 1..Len(sr) |-> sr[j][2]]
            IN  search' = [search EXCEPT
                    !.i = @ + 1,
                    !.recall_values =
                        Append(@, CalculateRecall(result_ids, truth))]
       ELSE search' = [search EXCEPT !.i = @ + 1]
    /\ UNCHANGED tvars

\* lines 489-497: the recall summary and the return.  np.min of an empty
\* list raises ValueError.
SearchSummary ==
    /\ search.pc = "loop"
    /\ search.i = search.num_searches
    /\ IF SummaryDue(search.measure_recall, search.recall_values)
       THEN IF search.recall_values = <<>>
            THEN search' = [search EXCEPT !.pc = "done",
                                          !.outcome = "ValueError"]
            ELSE search' = [search EXCEPT
                    !.pc = "done",
                    !.outcome = "True",
                    !.summary =
                        [printed |-> TRUE,
                         mean |-> Mean(search.recall_values),
                         min |-> MinOf(search.recall_values),
                         max |-> MaxOf(search.recall_values),
                         std_squared |-> Variance(search.recall_values)]]
       ELSE search' = [search EXCEPT !.pc = "done", !.outcome = "True"]
    /\ UNCHANGED tvars

----------------------------------------------------------------------------
(* The tracker used within its contract: a supported metric, k >= 1,       *)
(* vectors of the query dimension; any integer query index.                *)

NoTracker ==
    /\ constructed = FALSE
    /\ query_vectors = <<>>
    /\ k = 0
    /\ space_type = ""
    /\ heaps = <<>>
    /\ stream = <<>>
    /\ ret = NoRet

NoRecallCall ==
    /\ approximate_results = <<>>
    /\ ground_truth = <<>>
    /\ recall = [called |-> FALSE, value |-> <<0, 1>>]

NoSearch == search = IdleSearch

NoIndexing == indexing = IdleIndexing

Init == NoTracker /\ NoRecallCall /\ NoSearch /\ NoIndexing

DoConstruct ==
    \E qv \in QuerySets, kk \in 1..MaxK, st \in SupportedMetrics :
        Construct(qv, kk, st)

DoUpdate ==
    /\ Len(stream) < MaxN
    /\ \E doc_id \in Ids, vector \in Vecs : Update(doc_id, vector)

DoGetGroundTruth == \E qi \in QueryIndices : GetGroundTruth(qi)

Next ==
    \/ DoConstruct /\ UNCHANGED ovars
    \/ DoUpdate /\ UNCHANGED ovars
    \/ DoGetGroundTruth /\ UNCHANGED ovars

Spec == Init /\ [][Next]_vars

----------------------------------------------------------------------------
(* The tracker with inputs outside its contract as well *)

DoConstructC ==
    \E qv \in QuerySetsC, kk \in 1..MaxK, st \in AllMetrics :
        Construct(qv, kk, st)

DoUpdateC ==
    /\ Len(stream) < MaxNC
    /\ \E doc_id \in Ids, vector \in Vecs \cup OtherVecs :
          Update(doc_id, vector)

NextC ==
    \/ DoConstructC /\ UNCHANGED ovars
    \/ DoUpdateC /\ UNCHANGED ovars
    \/ DoGetGroundTruth /\ UNCHANGED ovars

SpecC == Init /\ [][NextC]_vars

----------------------------------------------------------------------------
(* calculate_recall on every pair of short identifier lists *)

InitR ==
    /\ NoTracker
    /\ NoSearch
    /\ NoIndexing
    /\ approximate_results \in IdSeqs
    /\ ground_truth \in IdSeqs
    /\ recall = [called |-> FALSE, value |-> <<0, 1>>]

NextR == DoCalculateRecall /\ UNCHANGED <<tvars, search, indexing>>

SpecR == InitR /\ [][NextR]_vars

----------------------------------------------------------------------------
(* test_search_with_stats after indexing: with a tracker that has seen a    *)
(* short stream (main builds it with l2), or without one                    *)

SearchStreams ==
    UNION {[1..n -> {[doc_id |-> <<9>>, vector |-> <<1, 0>>],
                     [doc_id |-> <<2>>, vector |-> <<0, 1>>]}] : n \in 0..2}

\* the heaps after feeding s to a fresh tracker (qv, kk, st)
RECURSIVE HeapsAfter(_, _, _, _)
HeapsAfter(s, qv, kk, st) ==
    IF s = <<>> THEN [i \in 1..Len(qv) |-> <<>>]
    ELSE UpdateLoop(HeapsAfter(SubSeq(s, 1, Len(s) - 1), qv, kk, st), 1, qv,
                    kk, st, s[Len(s)].doc_id, s[Len(s)].vector).heaps

InitS ==
    /\ NoRecallCall
    /\ NoIndexing
    /\ \/ /\ NoTracker
          /\ \E n \in 0..MaxSearches :
                search = [IdleSearch EXCEPT !.pc = "loop", !.num_searches = n]
       \/ \E qv \in QuerySetsC, kk \in 1..MaxK, s \in SearchStreams,
             n \in 0..MaxSearches :
                 /\ constructed = TRUE
                 /\ query_vectors = qv
                 /\ k = kk
                 /\ space_type = "l2"
                 /\ heaps = HeapsAfter(s, qv, kk, "l2")
                 /\ stream = [j \in 1..Len(s) |->
                                 [doc_id |-> s[j].doc_id,
                                  vector |-> s[j].vector,
                                  outcome |-> "ok", reached |-> Len(qv)]]
                 /\ ret = [NoRet EXCEPT
                              !.op = IF s = <<>> THEN "init" ELSE "update"]
                 /\ search = [IdleSearch EXCEPT !.pc = "loop",
                                                !.measure_recall = TRUE,
                                                !.num_searches = n]

DoSearchIteration ==
    \/ SearchIteration(FALSE, <<>>)
    \/ \E result_ids \in IdSeqs : SearchIteration(TRUE, result_ids)

NextS ==
    \/ DoSearchIteration /\ UNCHANGED <<rvars, indexing>>
    \/ SearchSummary /\ UNCHANGED <<rvars, indexing>>

SpecS == InitS /\ [][NextS]_vars

----------------------------------------------------------------------------
(* index_vectors, lines 54-125: the batches, the tracker updates and the    *)
(* bulk requests.  The tracker is the one main builds (l2), or None.        *)

\* str(doc_id): the decimal digits of a natural number
RECURSIVE DocIdStr(_)
DocIdStr(n) ==
    IF n < 10 THEN <<n>> ELSE Append(DocIdStr(n \div 10), n % 10)

\* line 63
TotalBatches(num_vectors, batch_size) ==
    (num_vectors + batch_size - 1) \div batch_size

\* line 74
StartIdx(batch, batch_size) == batch * batch_size

\* line 75 without its min: the last batch runs past num_vectors
EndIdxNoMin(batch, batch_size, num_vectors) == (batch + 1) * batch_size

\* line 75
EndIdx(batch, batch_size, num_vectors) ==
    Min((batch + 1) * batch_size, num_vectors)

\* line 76
CurrentBatchSize(x) ==
    EndIdx(x.batch, x.batch_size, x.num_vectors)
        - StartIdx(x.batch, x.batch_size)

\* lines 79-92: one document of the current batch: its action and document
\* lines join bulk_data and the tracker, if there is one, is updated; an
\* exception of update leaves index_vectors at once
IndexDocument(vector) ==
    /\ indexing.pc = "loop"
    /\ indexing.batch
          < TotalBatches(indexing.num_vectors, indexing.batch_size)
    /\ indexing.i < CurrentBatchSize(indexing)
    /\ LET doc_id == StartIdx(indexing.batch, indexing.batch_size)
                         + indexing.i
           raised == /\ constructed
                     /\ UpdateLoop(heaps, 1, query_vectors, k, space_type,
                                   DocIdStr(doc_id), vector).outcome # "ok"
       IN  /\ indexing' = [indexing EXCEPT
                  !.pc = IF raised THEN "raised" ELSE @,
                  !.i = IF raised THEN @ ELSE @ + 1,
                  !.bulk_data = Append(@, DocIdStr(doc_id))]
           /\ IF constructed
              THEN Update(DocIdStr(doc_id), vector)
              ELSE UNCHANGED tvars

\* lines 94-101: the bulk request of the current batch; any answer but 200
\* ends the process (sys.exit)
PostBulk(status_ok) ==
    /\ indexing.pc = "loop"
    /\ indexing.batch
          < TotalBatches(indexing.num_vectors, indexing.batch_size)
    /\ indexing.i = CurrentBatchSize(indexing)
    /\ indexing' =
          IF status_ok
          THEN [indexing EXCEPT !.batch = @ + 1,
                                !.i = 0,
                                !.bulk_data = <<>>,
                                !.posted = Append(@, indexing.bulk_data)]
          ELSE [indexing EXCEPT !.pc = "exit",
                                !.posted = Append(@, indexing.bulk_data)]
    /\ UNCHANGED tvars

\* lines 73 and 122-125: no batch is left; return True
IndexReturn ==
    /\ indexing.pc = "loop"
    /\ indexing.batch
          = TotalBatches(indexing.num_vectors, indexing.batch_size)
    /\ indexing' = [indexing EXCEPT !.pc = "done"]
    /\ UNCHANGED tvars

InitI ==
    /\ NoRecallCall
    /\ NoSearch
    /\ stream = <<>>
    /\ \E n \in 0..MaxVectors, b \in 1..MaxBatch :
          indexing = [IdleIndexing EXCEPT !.pc = "loop",
                                          !.num_vectors = n,
                                          !.batch_size = b]
    /\ \/ /\ constructed = FALSE
          /\ query_vectors = <<>>
          /\ k = 0
          /\ space_type = ""
          /\ heaps = <<>>
          /\ ret = NoRet
       \/ \E qv \in QuerySets :
             /\ constructed = TRUE
             /\ query_vectors = qv
             /\ k = MaxK
             /\ space_type \in {"l2"} \cup (AllMetrics \ SupportedMetrics)
             /\ heaps = [i \in 1..Len(qv) |-> <<>>]
             /\ ret = [NoRet EXCEPT !.op = "init"]

DoIndexDocument == \E vector \in IndexVecs : IndexDocument(vector)

DoPostBulk == \E status_ok \in BOOLEAN : PostBulk(status_ok)

NextI ==
    \/ DoIndexDocument /\ UNCHANGED <<rvars, search>>
    \/ DoPostBulk /\ UNCHANGED <<rvars, search>>
    \/ IndexReturn /\ UNCHANGED <<rvars, search>>

SpecI == InitI /\ [][NextI]_vars

----------------------------------------------------------------------------
(* What the stream says about a query (1-based position i) *)

\* the distance of stream entry j to query i, as update computes it
CandidateDist(i, j) ==
    Distance(query_vectors[i], stream[j].vector, space_type).dist

\* the stream entries for which update computed a candidate for query i
Computed(i) == {j \in 1..Len(stream) : stream[j].reached >= i}

RECURSIVE CandDists(_, _)
CandDists(i, n) ==
    IF n = 0 THEN <<>>
    ELSE CandDists(i, n - 1) \o
         (IF n \in Computed(i) THEN <<CandidateDist(i, n)>> ELSE <<>>)

RECURSIVE SortRats(_)
SortRats(s) ==
    IF s = <<>> THEN <<>>
    ELSE LET rest == SortRats(Tail(s))
             n == Cardinality({j \in 1..Len(rest) : RatLess(rest[j], s[1])})
         IN  SubSeq(rest, 1, n) \o <<s[1]>> \o SubSeq(rest, n + 1, Len(rest))

\* all candidate distances of query i, ascending
AllDists(i) == SortRats(CandDists(i, Len(stream)))

HeapDists(heap) == [e \in 1..Len(heap) |-> Neg(heap[e][1])]

HeapIds(heap) == {heap[e][2] : e \in 1..Len(heap)}

UniqueIds ==
    \A a, b \in 1..Len(stream) :
        stream[a].doc_id = stream[b].doc_id => a = b

\* C1: after any sequence of update calls (reads of the ground truth in
\* between included), every query's heap holds, as a multiset, the min(N, k)
\* smallest distances among the N candidates computed for that query, and
\* every retained identifier is paired with the distance it was ingested with.
C1_HeapHoldsKSmallest ==
    constructed =>
        \A i \in 1..Len(heaps) :
            LET all == AllDists(i)
            IN  /\ SortRats(HeapDists(heaps[i]))
                      = SubSeq(all, 1, Min(Len(all), k))
                /\ \A e \in 1..Len(heaps[i]) :
                      \E j \in Computed(i) :
                          /\ stream[j].doc_id = heaps[i][e][2]
                          /\ CandidateDist(i, j) = Neg(heaps[i][e][1])

\* C1 witness: more than k candidates were ingested, the last one evicted a
\* farther one (the heap holds its identifier, an earlier one is gone), and
\* the ground truth has just been read
C1_Witness ==
    /\ constructed
    /\ ret.op = "get_ground_truth"
    /\ ret.outcome = "ok"
    /\ Len(heaps) >= 1
    /\ Len(stream) > k
    /\ UniqueIds
    /\ stream[Len(stream)].doc_id \in HeapIds(heaps[1])
    /\ \E j \in 1..Len(stream) : stream[j].doc_id \notin HeapIds(heaps[1])

\* C2: get_ground_truth with a valid index returns exactly min(N, k)
\* identifiers, nearest first (their distances to the query never decrease
\* along the list), each the identifier of an ingested candidate; with fewer
\* than k vectors seen it returns fewer, without padding or raising.
C2_GroundTruthSizeAndOrder ==
    (/\ ret.op = "get_ground_truth"
     /\ 0 <= ret.query_index
     /\ ret.query_index < Len(query_vectors)) =>
        LET i == ret.query_index + 1
            n == Cardinality(Computed(i))
            sr == ret.sorted_results
        IN  /\ ret.outcome = "ok"
            /\ Len(ret.value) = Min(n, k)
            /\ Len(sr) = Len(ret.value)
            /\ \A j \in 1..Len(sr) :
                  /\ ret.value[j] = sr[j][2]
                  /\ \E c \in Computed(i) :
                        /\ stream[c].doc_id = sr[j][2]
                        /\ CandidateDist(i, c) = Neg(sr[j][1])
            /\ \A j \in 1..(Len(sr) - 1) :
                  ~RatLess(Neg(sr[j + 1][1]), Neg(sr[j][1]))

\* C2 witness: a read with a valid index that returns k = 2 identifiers of
\* two different distances after more than k updates
C2_Witness ==
    /\ ret.op = "get_ground_truth"
    /\ ret.outcome = "ok"
    /\ ret.query_index >= 0
    /\ k = 2
    /\ Len(stream) > k
    /\ Len(ret.value) = 2
    /\ RatLess(Neg(ret.sorted_results[1][1]), Neg(ret.sorted_results[2][1]))

\* the k-th smallest candidate distance of query i (there are at least k)
KthDist(i) == AllDists(i)[k]

TiedAtKth(i) ==
    {j \in Computed(i) : CandidateDist(i, j) = KthDist(i)}

\* C3 (as claimed): with unique identifiers, the candidates tied at the k-th
\* smallest distance that remain in the heap are the earliest ingested ones:
\* a retained tied candidate never has an earlier tied candidate left out.
C3_FirstSeenWins ==
    (constructed /\ UniqueIds) =>
        \A i \in 1..Len(heaps) :
            Cardinality(Computed(i)) > k =>
                \A a, b \in TiedAtKth(i) :
                    (a < b /\ stream[b].doc_id \in HeapIds(heaps[i]))
                        => stream[a].doc_id \in HeapIds(heaps[i])

\* the heaps after feeding the calls of s, in order, to a fresh tracker
RunStream(s) == HeapsAfter(s, query_vectors, k, space_type)

Perms(n) == {f \in [1..n -> 1..n] : \A a, b \in 1..n : f[a] = f[b] => a = b}

Permuted(s, f) == [j \in 1..Len(s) |-> s[f[j]]]

\* no two candidates of query i are tied at the k-th smallest distance
NoTieAtKth(i) ==
    Cardinality(Computed(i)) >= k => Cardinality(TiedAtKth(i)) = 1

\* the identifiers get_ground_truth returns for the heap
GroundTruthSet(heap) ==
    LET sr == SortedResults(heap) IN {sr[j][2] : j \in 1..Len(sr)}

\* C4: with unique identifiers and no tie at the k-th smallest distance of a
\* query, every permutation of the calls made so far leaves that query with
\* the same set of ground-truth identifiers.
C4_OrderIndependence ==
    (constructed /\ UniqueIds) =>
        \A i \in 1..Len(heaps) :
            NoTieAtKth(i) =>
                \A f \in Perms(Len(stream)) :
                    GroundTruthSet(RunStream(Permuted(stream, f))[i])
                        = GroundTruthSet(heaps[i])

\* C4 witness: more than k candidates with unique identifiers, no tie at the
\* k-th distance, and the nearest candidate came last: another order of the
\* same calls passes through different heaps
C4_Witness ==
    /\ constructed
    /\ UniqueIds
    /\ Len(heaps) >= 1
    /\ Len(stream) > k
    /\ NoTieAtKth(1)
    /\ CandidateDist(1, Len(stream)) = AllDists(1)[1]
    /\ RatLess(AllDists(1)[1], AllDists(1)[2])

\* C7 (as claimed): get_ground_truth returns a result exactly for the indices
\* in [0, Q) and raises for every other index, the negative ones included.
C7_IndexOutOfRange ==
    ret.op = "get_ground_truth" =>
        (ret.outcome = "ok" <=>
            (0 <= ret.query_index /\ ret.query_index < Len(query_vectors)))

\* C5 (as claimed): calculate_recall returns 0.0 for an empty ground truth,
\* and otherwise |set(approx) \cap set(truth)| / |set(truth)|, so that
\* repeated identifiers in either argument do not change the score.
C5_RecallOverSets ==
    recall.called =>
        recall.value =
            IF ground_truth = <<>> THEN <<0, 1>>
            ELSE Rat(Cardinality(SetOf(approximate_results)
                                     \cap SetOf(ground_truth)),
                     Cardinality(SetOf(ground_truth)))

\* C6 (as claimed): recall(X, X) = 1.0 for every non-empty X, repeated
\* identifiers included; recall([], Y) = 0.0 for non-empty Y; and
\* recall(X, []) = 0.0.
C6_RecallIdentities ==
    recall.called =>
        /\ (approximate_results = ground_truth /\ ground_truth # <<>>)
              => recall.value = <<1, 1>>
        /\ (approximate_results = <<>> /\ ground_truth # <<>>)
              => recall.value = <<0, 1>>
        /\ ground_truth = <<>> => recall.value = <<0, 1>>

\* C8 (as claimed): no tracker with a metric other than l2 or cosine is ever
\* constructed, for any number of queries, and none accepts an update.
C8_UnsupportedMetricAtConstruction ==
    /\ constructed => space_type \in SupportedMetrics
    /\ (ret.op = "update" /\ ret.outcome = "ok")
          => space_type \in SupportedMetrics

\* the update calls whose vector has not the dimension of the queries
Mismatched ==
    {j \in 1..Len(stream) :
        /\ Len(query_vectors) >= 1
        /\ Len(stream[j].vector) # Len(query_vectors[1])}

\* C9 (as claimed): an update whose vector has another dimension than the
\* queries always fails, and its candidate enters no per-query heap (l2 or
\* cosine, any mismatched length, length 1 included).
C9_DimensionMismatch ==
    constructed =>
        \A j \in Mismatched :
            /\ stream[j].outcome # "ok"
            /\ UniqueIds =>
                  \A i \in 1..Len(heaps) :
                      stream[j].doc_id \notin HeapIds(heaps[i])

C11_ReadOnlyIdempotent ==
    [][ret'.op = "get_ground_truth" =>
          /\ heaps' = heaps
          /\ query_vectors' = query_vectors
          /\ k' = k
          /\ space_type' = space_type
          /\ (ret.op = "get_ground_truth"
              /\ ret.query_index = ret'.query_index) =>
                 /\ ret'.outcome = ret.outcome
                 /\ ret'.value = ret.value]_vars

\* C11 witness: a read of a full heap that holds two different distances and
\* whose list order differs from the returned order (the read had to sort)
C11_Witness ==
    /\ ret.op = "get_ground_truth"
    /\ ret.outcome = "ok"
    /\ Len(ret.value) = k
    /\ k >= 2
    /\ ret.sorted_results
          # heaps[ListIndex(Len(heaps), ret.query_index)]

\* the position in the stream at which identifier id was ingested (unique ids)
FirstSeen(id) == CHOOSE j \in 1..Len(stream) : stream[j].doc_id = id

\* C12 (as claimed): in the list get_ground_truth returns, identifiers at
\* equal distance from the query appear in the order they were ingested, for
\* every ingestion order and every choice of (unique) identifiers.
C12_TiesInFirstSeenOrder ==
    (/\ ret.op = "get_ground_truth"
     /\ ret.outcome = "ok"
     /\ 0 <= ret.query_index
     /\ UniqueIds) =>
        \A a, b \in 1..Len(ret.sorted_results) :
            (a < b /\ ret.sorted_results[a][1] = ret.sorted_results[b][1])
                => FirstSeen(ret.value[a]) < FirstSeen(ret.value[b])

\* the largest distance a non-empty heap retains
WorstDist(heap) ==
    CHOOSE d \in {Neg(heap[e][1]) : e \in 1..Len(heap)} :
        \A e \in 1..Len(heap) : ~RatLess(d, Neg(heap[e][1]))

\* C14: once a query's heap holds k entries, every later update leaves it
\* with exactly k entries and a worst distance that is not larger, and (with
\* unique identifiers) an identifier ingested earlier that is not in the heap
\* is not in it afterwards either.
C14_FullHeapMonotone ==
    [][\A i \in 1..Len(heaps) :
          (constructed /\ Len(heaps[i]) = k) =>
              /\ Len(heaps'[i]) = k
              /\ ~RatLess(WorstDist(heaps[i]), WorstDist(heaps'[i]))
              /\ UniqueIds' =>
                    \A j \in 1..Len(stream) :
                        stream[j].doc_id \notin HeapIds(heaps[i])
                            => stream[j].doc_id \notin HeapIds(heaps'[i])]_vars

\* C14 witness: the second query's heap is full, one earlier candidate was
\* evicted from it and the candidate of the last update was discarded
C14_Witness ==
    /\ constructed
    /\ ret.op = "update"
    /\ UniqueIds
    /\ Len(heaps) >= 2
    /\ Len(heaps[2]) = k
    /\ Len(stream) >= k + 2
    /\ stream[Len(stream)].doc_id \notin HeapIds(heaps[2])
    /\ \E j \in 1..k : stream[j].doc_id \notin HeapIds(heaps[2])

(***************************************************************************)
(* C13: when index_vectors runs with a tracker, update is called once for  *)
(* each document id 0, 1, ..., num_vectors - 1, written as a decimal       *)
(* string, in increasing order, with nothing skipped or repeated where one *)
(* batch ends and the next begins; every id of a bulk request that was     *)
(* sent had its update before the request; and on return every id has been *)
(* updated and sent.                                                       *)
(***************************************************************************)
RECURSIVE DigitsValue(_)
DigitsValue(d) ==
    IF d = <<>> THEN 0
    ELSE 10 * DigitsValue(SubSeq(d, 1, Len(d) - 1)) + d[Len(d)]

DecimalOf(d, n) ==
    /\ Len(d) >= 1
    /\ \A j \in 1..Len(d) : d[j] \in 0..9
    /\ Len(d) > 1 => d[1] # 0
    /\ DigitsValue(d) = n

RECURSIVE Flatten(_)
Flatten(batches) ==
    IF batches = <<>> THEN <<>>
    ELSE Flatten(SubSeq(batches, 1, Len(batches) - 1))
             \o batches[Len(batches)]

UpdatedIds == [j \in 1..Len(stream) |-> stream[j].doc_id]

C13_UpdateOncePerIdInOrder ==
    constructed =>
        /\ Len(stream) <= indexing.num_vectors
        /\ \A j \in 1..Len(stream) : DecimalOf(stream[j].doc_id, j - 1)
        /\ LET sent == Flatten(indexing.posted)
           IN  /\ Len(sent) <= Len(stream)
               /\ sent = SubSeq(UpdatedIds, 1, Len(sent))
               /\ indexing.pc = "done" => sent = UpdatedIds
        /\ indexing.pc = "done" => Len(stream) = indexing.num_vectors

C13_Witness ==
    /\ constructed
    /\ indexing.pc = "done"
    /\ indexing.batch_size > 1
    /\ indexing.num_vectors > 10
    /\ indexing.num_vectors % indexing.batch_size # 0
    /\ Len(indexing.posted) > 1
    /\ Len(stream) = indexing.num_vectors
    /\ stream[Len(stream)].outcome = "ok"

====
